---- MODULE Spec2Model ----
(***************************************************************************)
(* datastore-mysql: the SQL statement AST (src/lib.rs), the value / schema *)
(* writers and the row reader (src/mysql.rs), and the MySqlStore facade.   *)
(*                                                                         *)
(* A Rust String / &str is a sequence of one-character strings, so that    *)
(* escaping, formatting and joining are computed character by character.   *)
(* Str(s) is the same text as one TLA+ string, used to compare a rendering *)
(* with the text the tests assert.                                         *)
(***************************************************************************)
EXTENDS Integers, Sequences, FiniteSets, TLC

VARIABLES
    op,         \* the facade operation in progress ("unit": a writer driven directly)
    pc,         \* where that operation stands
    writer,     \* the MySqlWriter / MySqlTypeWriter of the operation
    calls,      \* the write_field calls made on the writer so far, in order
    fault,      \* "none", or "unreachable" once unreachable!() has fired
    sql,        \* the text handed to the driver
    reply,      \* the driver's last reply
    streamed,   \* the rows the driver's stream has yielded so far
    entries,    \* the records reconstructed so far (Vec<T>)
    result,     \* what the operation returned to its caller
    db,         \* the table's rows before and after an executed DELETE
    requests,   \* the requests the operation has made to the driver, in order
    tasks       \* the operations running concurrently on one store, each with its own state

vars == <<op, pc, writer, calls, fault, sql, reply, streamed, entries, result, db,
          requests, tasks>>

---------------------------------------------------------------------------
(* Bounds *)

MaxCalls == 2
MaxRows == 2

---------------------------------------------------------------------------
(* Text *)

RECURSIVE Str(_)
Str(s) == IF s = <<>> THEN "" ELSE Head(s) \o Str(Tail(s))

\* [String]::join(sep)
RECURSIVE Join(_, _)
Join(ss, sep) ==
    IF ss = <<>> THEN <<>>
    ELSE IF Len(ss) = 1 THEN ss[1]
    ELSE ss[1] \o sep \o Join(Tail(ss), sep)

\* str::replace(from, to) for a one-character pattern
RECURSIVE Replace(_, _, _)
Replace(v, from, to) ==
    IF v = <<>> THEN <<>>
    ELSE (IF Head(v) = from THEN to ELSE <<Head(v)>>) \o Replace(Tail(v), from, to)

StartsWith(s, p) == Len(s) >= Len(p) /\ SubSeq(s, 1, Len(p)) = p

Drop(s, n) == SubSeq(s, n + 1, Len(s))

DigitChar == <<"0", "1", "2", "3", "4", "5", "6", "7", "8", "9">>
HexChar == <<"0", "1", "2", "3", "4", "5", "6", "7", "8", "9", "a", "b", "c", "d", "e", "f">>

RECURSIVE Digits(_)
Digits(n) ==
    IF n < 10 THEN <<DigitChar[n + 1]>>
    ELSE Digits(n \div 10) \o <<DigitChar[(n % 10) + 1]>>

\* ToString for the integer types
IntToString(n) == IF n < 0 THEN <<"-">> \o Digits(0 - n) ELSE Digits(n)

\* format!("{:02x}", byte)
HexByte(b) == <<HexChar[(b \div 16) + 1], HexChar[(b % 16) + 1]>>

RECURSIVE HexBytes(_)
HexBytes(v) == IF v = <<>> THEN <<>> ELSE HexByte(Head(v)) \o HexBytes(Tail(v))

---------------------------------------------------------------------------
(* Inputs: keys, tables, primitive kinds and values *)

ID == <<"i", "d">>
NAME == <<"n", "a", "m", "e">>
Keys == {ID, NAME}

TEST == <<"t", "e", "s", "t">>
Tables == {TEST}

Kinds ==
    {"bool", "i8", "i16", "i32", "i64", "u8", "u16", "u32", "u64",
     "f32", "f64", "bytes", "str"}

HELLO == <<"h", "e", "l", "l", "o">>
OBRIEN == <<"O", "'", "B", "r", "i", "e", "n">>
QQ == <<"'", "'">>
Q == <<"'">>
Texts == {HELLO, OBRIEN, QQ}

Val(kind, val) == [kind |-> kind, val |-> val]

Values ==
    {Val("str", t) : t \in Texts}
        \cup {Val("i32", n) : n \in {3, -12}}
        \cup {Val("bool", FALSE), Val("bytes", <<10, 255>>)}

\* the kinds a schema-level write_field is called with
FieldKinds == {"i32", "str", "u64"}

---------------------------------------------------------------------------
(* Statement AST (src/lib.rs) *)

QueryKind == {"Create", "Delete", "Insert", "Select"}

QueryNew(table, kind) ==
    [table |-> table, kind |-> kind,
     columns |-> <<>>, values |-> <<>>, conditions |-> <<>>]

ConditionNew(column, value, comparator) ==
    [column |-> column, value |-> value, comparator |-> comparator]

\* Query::push with key and value exchanged in the Insert arm
PushSwapped(q, key, value) ==
    CASE q.kind = "Create" ->
            [panic |-> FALSE,
             query |-> [q EXCEPT !.columns = Append(@, key), !.values = Append(@, value)]]
      [] q.kind = "Delete" ->
            [panic |-> TRUE, query |-> q]
      [] q.kind = "Insert" ->
            [panic |-> FALSE,
             query |-> [q EXCEPT !.columns = Append(@, value), !.values = Append(@, key)]]
      [] q.kind = "Select" ->
            [panic |-> FALSE, query |-> [q EXCEPT !.columns = Append(@, key)]]

\* Query::push; panic = unreachable!() was hit
Push(q, key, value) ==
    CASE q.kind = "Create" ->
            [panic |-> FALSE,
             query |-> [q EXCEPT !.columns = Append(@, key), !.values = Append(@, value)]]
      [] q.kind = "Delete" ->
            [panic |-> TRUE, query |-> q]
      [] q.kind = "Insert" ->
            [panic |-> FALSE,
             query |-> [q EXCEPT !.columns = Append(@, key), !.values = Append(@, value)]]
      [] q.kind = "Select" ->
            [panic |-> FALSE, query |-> [q EXCEPT !.columns = Append(@, key)]]

\* Conditions::push
ConditionsPush(conditions, value) == Append(conditions, value)

\* Query::push_condition that returns quietly on Create and Insert
PushConditionLax(q, condition) ==
    IF q.kind \in {"Delete", "Select"}
    THEN [panic |-> FALSE,
          query |-> [q EXCEPT !.conditions = ConditionsPush(@, condition)]]
    ELSE [panic |-> FALSE, query |-> q]

\* Query::push_condition
PushCondition(q, condition) ==
    CASE q.kind = "Create" ->
            [panic |-> TRUE, query |-> q]
      [] q.kind = "Delete" ->
            [panic |-> FALSE,
             query |-> [q EXCEPT !.conditions = ConditionsPush(@, condition)]]
      [] q.kind = "Insert" ->
            [panic |-> TRUE, query |-> q]
      [] q.kind = "Select" ->
            [panic |-> FALSE,
             query |-> [q EXCEPT !.conditions = ConditionsPush(@, condition)]]

\* Display for Comparator
ComparatorFmt(c) == CASE c = "Eq" -> <<"=">>

\* Display for Condition: "{} {} {}"
ConditionFmt(c) == c.column \o <<" ">> \o ComparatorFmt(c.comparator) \o <<" ">> \o c.value

WHERE == <<" ", "W", "H", "E", "R", "E", " ">>
AND == <<" ", "A", "N", "D", " ">>

\* the loop over conditions.iter().skip(1)
RECURSIVE ConditionsFmtRest(_)
ConditionsFmtRest(cs) ==
    IF cs = <<>> THEN <<>>
    ELSE AND \o ConditionFmt(Head(cs)) \o ConditionsFmtRest(Tail(cs))

\* Display for Conditions with the skip(1) forgotten
ConditionsFmtNoSkip(cs) ==
    IF cs = <<>> THEN <<>>
    ELSE WHERE \o ConditionFmt(cs[1]) \o ConditionsFmtRest(cs)

\* Display for Conditions
ConditionsFmt(cs) ==
    IF cs = <<>> THEN <<>>
    ELSE WHERE \o ConditionFmt(cs[1]) \o ConditionsFmtRest(Tail(cs))

CREATE_TABLE == <<"C", "R", "E", "A", "T", "E", " ", "T", "A", "B", "L", "E", " ",
                  "I", "F", " ", "N", "O", "T", " ", "E", "X", "I", "S", "T", "S", " ">>
DELETE_FROM == <<"D", "E", "L", "E", "T", "E", " ", "F", "R", "O", "M", " ">>
INSERT_INTO == <<"I", "N", "S", "E", "R", "T", " ", "I", "N", "T", "O", " ">>
VALUES == <<" ", "V", "A", "L", "U", "E", "S", " ">>
SELECT == <<"S", "E", "L", "E", "C", "T", " ">>
FROM == <<" ", "F", "R", "O", "M", " ">>

Min(a, b) == IF a < b THEN a ELSE b

\* the pair formatted with its two arguments exchanged
ZipFmtTypeFirst(columns, values) ==
    [i \in 1..Min(Len(columns), Len(values)) |-> values[i] \o <<" ">> \o columns[i]]

\* columns.iter().zip(values).map(|(column, value)| format!("{} {}", column, value))
ZipFmt(columns, values) ==
    [i \in 1..Min(Len(columns), Len(values)) |-> columns[i] \o <<" ">> \o values[i]]

\* Display for Query
QueryFmt(q) ==
    CASE q.kind = "Create" ->
            CREATE_TABLE \o q.table \o <<" ", "(">>
                \o Join(ZipFmt(q.columns, q.values), <<",">>) \o <<")">>
      [] q.kind = "Delete" ->
            DELETE_FROM \o q.table \o ConditionsFmt(q.conditions)
      [] q.kind = "Insert" ->
            INSERT_INTO \o q.table \o <<" ", "(">> \o Join(q.columns, <<",">>) \o <<")">>
                \o VALUES \o <<"(">> \o Join(q.values, <<",">>) \o <<")">>
      [] q.kind = "Select" ->
            SELECT \o Join(q.columns, <<",">>) \o FROM \o q.table
                \o ConditionsFmt(q.conditions)

---------------------------------------------------------------------------
(* Value writer and schema writers (src/mysql.rs) *)

\* MySqlWriter::new
MySqlWriterNew(table, kind) ==
    [impl |-> "MySqlWriter", query |-> QueryNew(table, kind),
     key |-> <<>>, write_conditions |-> FALSE]

\* MySqlTypeWriter::new
MySqlTypeWriterNew(table, kind) ==
    [impl |-> "MySqlTypeWriter", query |-> QueryNew(table, kind),
     key |-> <<>>, write_conditions |-> FALSE]

\* MySqlWriter::sql, MySqlTypeWriter::sql
WriterSql(w) == QueryFmt(w.query)

\* MySqlWriter::write that never looks at write_conditions
MySqlWriterWriteNoMode(w, val) ==
    LET r == Push(w.query, w.key, val)
    IN  [panic |-> r.panic, writer |-> [w EXCEPT !.query = r.query]]

\* MySqlWriter::write
MySqlWriterWrite(w, val) ==
    LET r == IF w.write_conditions
             THEN PushCondition(w.query, ConditionNew(w.key, val, "Eq"))
             ELSE Push(w.query, w.key, val)
    IN  [panic |-> r.panic, writer |-> [w EXCEPT !.query = r.query]]

\* MySqlTypeWriter::write with the branches of the mode test exchanged
MySqlTypeWriterWriteInverted(w, value) ==
    LET r == IF w.write_conditions
             THEN Push(w.query, w.key, value)
             ELSE PushCondition(w.query, ConditionNew(w.key, value, "Eq"))
    IN  [panic |-> r.panic, writer |-> [w EXCEPT !.query = r.query]]

\* MySqlTypeWriter::write
MySqlTypeWriterWrite(w, value) ==
    LET r == IF ~w.write_conditions
             THEN Push(w.query, w.key, value)
             ELSE PushCondition(w.query, ConditionNew(w.key, value, "Eq"))
    IN  [panic |-> r.panic, writer |-> [w EXCEPT !.query = r.query]]

\* Writer::write_bool
WriteBool(v) == IF v THEN <<"T", "R", "U", "E">> ELSE <<"F", "A", "L", "S", "E">>

\* Writer::write_bytes
WriteBytes(v) == <<"0", "x">> \o HexBytes(v)

\* Writer::write_str: format!("'{}'", v.replace('\'', "\'")); the Rust literal "\'" is
\* the one-character text '
WriteStr(v) == <<"'">> \o Replace(v, "'", <<"'">>) \o <<"'">>

\* the literal a value writes: Write::write of its type (src/types.rs) calls the
\* Writer method of its kind
Literal(value) ==
    CASE value.kind = "bool" -> WriteBool(value.val)
      [] value.kind \in {"i8", "i16", "i32", "i64", "u8", "u16", "u32", "u64"} ->
            IntToString(value.val)
      [] value.kind = "bytes" -> WriteBytes(value.val)
      [] value.kind = "str" -> WriteStr(value.val)

UNSIGNED == <<" ", "U", "N", "S", "I", "G", "N", "E", "D">>
TINYINT == <<"T", "I", "N", "Y", "I", "N", "T">>
SMALLINT == <<"S", "M", "A", "L", "L", "I", "N", "T">>
INT == <<"I", "N", "T">>
BIGINT == <<"B", "I", "G", "I", "N", "T">>

\* impl TypeWriter for MySqlWriter: the text each write_<kind> passes to write
MySqlWriterTypeName(kind) ==
    CASE kind = "bool" -> <<"B", "O", "O", "L", "E", "A", "N">>
      [] kind = "i8" -> TINYINT
      [] kind = "i16" -> SMALLINT
      [] kind = "i32" -> INT
      [] kind = "i64" -> BIGINT
      [] kind = "u8" -> TINYINT \o UNSIGNED
      [] kind = "u16" -> SMALLINT \o UNSIGNED
      [] kind = "u32" -> INT \o UNSIGNED
      [] kind = "u64" -> BIGINT \o UNSIGNED
      [] kind = "f32" -> <<"F", "L", "O", "A", "T">>
      [] kind = "f64" -> <<"D", "O", "U", "B", "L", "E">>
      [] kind = "bytes" -> <<"B", "L", "O", "B">>
      [] kind = "str" -> <<"T", "E", "X", "T">>

\* impl TypeWriter for MySqlTypeWriter with write_u8 passing the text of write_i8
MySqlTypeWriterTypeNameSigned(kind) ==
    CASE kind = "bool" -> <<"B", "O", "O", "L", "E", "A", "N">>
      [] kind = "i8" -> TINYINT
      [] kind = "i16" -> SMALLINT
      [] kind = "i32" -> INT
      [] kind = "i64" -> BIGINT
      [] kind = "u8" -> TINYINT
      [] kind = "u16" -> SMALLINT \o UNSIGNED
      [] kind = "u32" -> INT \o UNSIGNED
      [] kind = "u64" -> BIGINT \o UNSIGNED
      [] kind = "f32" -> <<"F", "L", "O", "A", "T">>
      [] kind = "f64" -> <<"D", "O", "U", "B", "L", "E">>
      [] kind = "bytes" -> <<"B", "L", "O", "B">>
      [] kind = "str" -> <<"T", "E", "X", "T">>

\* impl TypeWriter for MySqlTypeWriter: the text each write_<kind> passes to write
MySqlTypeWriterTypeName(kind) ==
    CASE kind = "bool" -> <<"B", "O", "O", "L", "E", "A", "N">>
      [] kind = "i8" -> TINYINT
      [] kind = "i16" -> SMALLINT
      [] kind = "i32" -> INT
      [] kind = "i64" -> BIGINT
      [] kind = "u8" -> TINYINT \o UNSIGNED
      [] kind = "u16" -> SMALLINT \o UNSIGNED
      [] kind = "u32" -> INT \o UNSIGNED
      [] kind = "u64" -> BIGINT \o UNSIGNED
      [] kind = "f32" -> <<"F", "L", "O", "A", "T">>
      [] kind = "f64" -> <<"D", "O", "U", "B", "L", "E">>
      [] kind = "bytes" -> <<"B", "L", "O", "B">>
      [] kind = "str" -> <<"T", "E", "X", "T">>

\* Writer::write_field that writes the value before it stores the key
WriteFieldStaleKey(w, key, value) ==
    LET r == MySqlWriterWrite(w, Literal(value))
    IN  [panic |-> r.panic, writer |-> [r.writer EXCEPT !.key = key]]

\* Writer::write_field for MySqlWriter
WriteField(w, key, value) ==
    MySqlWriterWrite([w EXCEPT !.key = key], Literal(value))

\* TypeWriter::write_field for MySqlWriter and for MySqlTypeWriter
TypeWriteField(w, key, kind) ==
    IF w.impl = "MySqlTypeWriter"
    THEN MySqlTypeWriterWrite([w EXCEPT !.key = key], MySqlTypeWriterTypeName(kind))
    ELSE MySqlWriterWrite([w EXCEPT !.key = key], MySqlWriterTypeName(kind))

---------------------------------------------------------------------------
(* The server's reading of the text it is sent: a string literal opens with a *)
(* single quote, two single quotes inside it stand for one, and one single    *)
(* quote closes it.                                                           *)

\* s is the text after the opening quote
RECURSIVE SqlLexString(_, _)
SqlLexString(s, acc) ==
    IF s = <<>> THEN [ok |-> FALSE, val |-> acc, rest |-> <<>>]
    ELSE IF Head(s) = "'"
         THEN IF Len(s) >= 2 /\ s[2] = "'"
              THEN SqlLexString(Drop(s, 2), Append(acc, "'"))
              ELSE [ok |-> TRUE, val |-> acc, rest |-> Tail(s)]
         ELSE SqlLexString(Tail(s), Append(acc, Head(s)))

\* a whole literal read as one SQL string
SqlReadString(lit) ==
    IF lit = <<>> \/ Head(lit) # "'" THEN [ok |-> FALSE, val |-> <<>>]
    ELSE LET r == SqlLexString(Tail(lit), <<>>)
         IN  IF r.ok /\ r.rest = <<>> THEN [ok |-> TRUE, val |-> r.val]
             ELSE [ok |-> FALSE, val |-> <<>>]

---------------------------------------------------------------------------
(* A writer driven directly, as the unit tests drive it (src/mysql.rs tests) *)

Idle ==
    /\ sql = <<>>
    /\ reply = "none"
    /\ streamed = <<>>
    /\ entries = <<>>
    /\ result = [tag |-> "Pending", val |-> <<>>]
    /\ db = [before |-> {}, after |-> {}]
    /\ requests = <<>>
    /\ tasks = <<>>

InitUnit ==
    /\ op = "unit"
    /\ pc = "write"
    /\ \E table \in Tables, kind \in QueryKind :
          writer \in {MySqlWriterNew(table, kind), MySqlTypeWriterNew(table, kind)}
    /\ calls = <<>>
    /\ fault = "none"
    /\ Idle

\* the call log entry of one write_field
Call(level, key, arg, cond) == [level |-> level, key |-> key, arg |-> arg, cond |-> cond]

\* the effect of one write_field on the writer, the log and the fault
Written(r, call) ==
    /\ calls' = Append(calls, call)
    /\ writer' = r.writer
    /\ fault' = IF r.panic THEN "unreachable" ELSE "none"

\* writer.write_conditions = true
UnitSetConditions ==
    /\ op = "unit" /\ pc = "write" /\ fault = "none"
    /\ ~writer.write_conditions
    /\ writer' = [writer EXCEPT !.write_conditions = TRUE]
    /\ UNCHANGED <<op, pc, calls, fault, sql, reply, streamed, entries, result, db, requests, tasks>>

\* <MySqlWriter as Writer>::write_field(&mut writer, key, value)
UnitWriteField ==
    /\ op = "unit" /\ pc = "write" /\ fault = "none"
    /\ writer.impl = "MySqlWriter"
    /\ Len(calls) < MaxCalls
    /\ \E key \in Keys, value \in Values :
          Written(WriteField(writer, key, value),
                  Call("value", key, value, writer.write_conditions))
    /\ UNCHANGED <<op, pc, sql, reply, streamed, entries, result, db, requests, tasks>>

\* <_ as TypeWriter>::write_field::<T>(&mut writer, key)
UnitTypeWriteField ==
    /\ op = "unit" /\ pc = "write" /\ fault = "none"
    /\ Len(calls) < MaxCalls
    /\ \E key \in Keys, kind \in FieldKinds :
          Written(TypeWriteField(writer, key, kind),
                  Call("type", key, kind, writer.write_conditions))
    /\ UNCHANGED <<op, pc, sql, reply, streamed, entries, result, db, requests, tasks>>

\* writer.sql()
UnitSql ==
    /\ op = "unit" /\ pc = "write" /\ fault = "none"
    /\ pc' = "rendered"
    /\ sql' = WriterSql(writer)
    /\ UNCHANGED <<op, writer, calls, fault, reply, streamed, entries, result, db,
                   requests, tasks>>

NextUnit ==
    \/ UnitSetConditions
    \/ UnitWriteField
    \/ UnitTypeWriteField
    \/ UnitSql

SpecUnit == InitUnit /\ [][NextUnit]_vars

---------------------------------------------------------------------------
(* Row reader (src/mysql.rs) *)

Null == [kind |-> "null", val |-> <<>>]

\* MySqlReader::read: row.try_get(column) for a target kind
TryGet(row, column, kind) ==
    IF column \notin DOMAIN row THEN [ok |-> FALSE, val |-> Null, err |-> "ColumnNotFound"]
    ELSE IF row[column] = Null \/ row[column].kind # kind
         THEN [ok |-> FALSE, val |-> Null, err |-> "ColumnDecode"]
         ELSE [ok |-> TRUE, val |-> row[column], err |-> ""]

\* T::read(&mut reader): one read_field per field of T, in order, the first fault
\* ending it
RECURSIVE Read(_, _, _)
Read(row, fields, acc) ==
    IF fields = <<>> THEN [ok |-> TRUE, val |-> acc, err |-> ""]
    ELSE LET r == TryGet(row, Head(fields).key, Head(fields).kind)
         IN  IF r.ok THEN Read(row, Tail(fields), Append(acc, r.val))
             ELSE [ok |-> FALSE, val |-> <<>>, err |-> r.err]

---------------------------------------------------------------------------
(* The server's execution of a DELETE text *)

RECURSIVE WordLen(_)
WordLen(s) == IF s = <<>> \/ Head(s) = " " THEN 0 ELSE 1 + WordLen(Tail(s))

EQUALS == <<" ", "=", " ">>

\* <column> = <literal> [ AND <column> = <literal> ]*
RECURSIVE SqlParseConditions(_, _)
SqlParseConditions(s, acc) ==
    LET n == WordLen(s)
        afterCol == Drop(s, n)
        lit == Drop(afterCol, Len(EQUALS))
        str == SqlLexString(Tail(lit), <<>>)
        m == WordLen(lit)
        value == IF Head(lit) = "'" THEN [kind |-> "str", val |-> str.val]
                 ELSE [kind |-> "bare", val |-> SubSeq(lit, 1, m)]
        rest == IF Head(lit) = "'" THEN str.rest ELSE Drop(lit, m)
        conds == Append(acc, [column |-> SubSeq(s, 1, n), value |-> value])
    IN  IF n = 0 \/ ~StartsWith(afterCol, EQUALS) \/ lit = <<>> THEN [ok |-> FALSE, conds |-> <<>>]
        ELSE IF Head(lit) = "'" /\ ~str.ok THEN [ok |-> FALSE, conds |-> <<>>]
        ELSE IF Head(lit) # "'" /\ m = 0 THEN [ok |-> FALSE, conds |-> <<>>]
        ELSE IF rest = <<>> THEN [ok |-> TRUE, conds |-> conds]
        ELSE IF StartsWith(rest, AND) THEN SqlParseConditions(Drop(rest, Len(AND)), conds)
        ELSE [ok |-> FALSE, conds |-> <<>>]

\* DELETE FROM <table>[ WHERE <conditions>]
SqlParseDelete(text) ==
    LET afterKw == Drop(text, Len(DELETE_FROM))
        n == WordLen(afterKw)
        rest == Drop(afterKw, n)
    IN  IF ~StartsWith(text, DELETE_FROM) \/ n = 0 THEN [ok |-> FALSE, conds |-> <<>>]
        ELSE IF rest = <<>> THEN [ok |-> TRUE, conds |-> <<>>]
        ELSE IF StartsWith(rest, WHERE) THEN SqlParseConditions(Drop(rest, Len(WHERE)), <<>>)
        ELSE [ok |-> FALSE, conds |-> <<>>]

\* a stored row against one parsed condition
SqlRowMatches(row, cond) ==
    /\ cond.column \in DOMAIN row
    /\ row[cond.column] # Null
    /\ IF cond.value.kind = "str"
       THEN row[cond.column].kind = "str" /\ row[cond.column].val = cond.value.val
       ELSE row[cond.column].kind = "i32" /\ IntToString(row[cond.column].val) = cond.value.val

\* the rows left after the DELETE
SqlDelete(rows, conds) ==
    {row \in rows : ~(\A i \in DOMAIN conds : SqlRowMatches(row, conds[i]))}

---------------------------------------------------------------------------
(* MySqlStore: one facade operation, from the construction of its writer to its *)
(* return (src/mysql.rs)                                                        *)

Ops == {"create", "delete", "get", "get_all", "get_one", "insert"}

\* the fields of the record type T, and the values a query or a record gives them
Fields == {[key |-> ID, kind |-> "i32"], [key |-> NAME, kind |-> "str"]}
FieldValues ==
    {[key |-> ID, value |-> Val("i32", 3)],
     [key |-> NAME, value |-> Val("str", HELLO)],
     [key |-> NAME, value |-> Val("str", QQ)]}

RowHello == (ID :> Val("i32", 3)) @@ (NAME :> Val("str", HELLO))
RowQ == (ID :> Val("i32", -12)) @@ (NAME :> Val("str", Q))
RowQQ == (ID :> Val("i32", 3)) @@ (NAME :> Val("str", QQ))
RowNull == (ID :> Val("i32", 3)) @@ (NAME :> Null)
RowNoName == (ID :> Val("i32", 3))
RowText == (ID :> Val("str", HELLO)) @@ (NAME :> Val("str", HELLO))

\* the rows a fetch may yield, and the rows the table may hold
Rows == {RowHello, RowQ, RowNull, RowNoName, RowText}
DbRows == {RowHello, RowQ, RowQQ}

Res(tag, val, err) == [tag |-> tag, val |-> val, err |-> err]
Pending == Res("Pending", <<>>, "")
Panic == Res("Panic", <<>>, "")
Ok(val) == Res("Ok", val, "")
Err(err) == Res("Err", <<>>, err)

\* the writers of the operations with delete's writer left in value mode
WriterOfNoMode(o, table) ==
    CASE o = "create" -> MySqlTypeWriterNew(table, "Create")
      [] o = "delete" -> MySqlWriterNew(table, "Delete")
      [] o = "get" -> MySqlWriterNew(table, "Select")
      [] o = "get_all" -> MySqlTypeWriterNew(table, "Select")
      [] o = "get_one" -> MySqlWriterNew(table, "Select")
      [] o = "insert" -> MySqlWriterNew(table, "Insert")

\* the writer each operation constructs, and the callback it runs first
WriterOf(o, table) ==
    CASE o = "create" -> MySqlTypeWriterNew(table, "Create")
      [] o = "delete" -> [MySqlWriterNew(table, "Delete") EXCEPT !.write_conditions = TRUE]
      [] o = "get" -> MySqlWriterNew(table, "Select")
      [] o = "get_all" -> MySqlTypeWriterNew(table, "Select")
      [] o = "get_one" -> MySqlWriterNew(table, "Select")
      [] o = "insert" -> MySqlWriterNew(table, "Insert")

FirstPc(o) ==
    CASE o \in {"create", "get", "get_all", "get_one"} -> "descriptor"
      [] o = "delete" -> "query"
      [] o = "insert" -> "data"

\* the driver request each operation makes
RequestOf(o) ==
    CASE o \in {"create", "delete", "insert"} -> "execute"
      [] o \in {"get", "get_all"} -> "fetch"
      [] o = "get_one" -> "fetch_one"

Init ==
    /\ op \in Ops
    /\ pc = FirstPc(op)
    /\ \E table \in Tables : writer = WriterOf(op, table)
    /\ calls = <<>>
    /\ fault = "none"
    /\ Idle

\* the fields of T: what descriptor.write wrote
TypeCalls == SelectSeq(calls, LAMBDA c : c.level = "type")
DescriptorFields == [i \in DOMAIN TypeCalls |-> [key |-> TypeCalls[i].key, kind |-> TypeCalls[i].arg]]

\* a write_field made by a callback of the operation; unreachable!() unwinds it
FacadeWritten(r, call) ==
    /\ Written(r, call)
    /\ pc' = IF r.panic THEN "done" ELSE pc
    /\ result' = IF r.panic THEN Panic ELSE result
    /\ UNCHANGED <<op, sql, reply, streamed, entries, db, requests, tasks>>

\* descriptor.write(&mut writer): one TypeWriter::write_field
DescriptorWriteField ==
    /\ pc = "descriptor"
    /\ Len(calls) < MaxCalls
    /\ \E f \in Fields :
          FacadeWritten(TypeWriteField(writer, f.key, f.kind),
                        Call("type", f.key, f.kind, writer.write_conditions))

\* query.write(&mut writer): one Writer::write_field
QueryWriteField ==
    /\ pc = "query"
    /\ Len(calls) < MaxCalls
    /\ \E f \in FieldValues :
          FacadeWritten(WriteField(writer, f.key, f.value),
                        Call("value", f.key, f.value, writer.write_conditions))

\* data.write(&mut writer): one Writer::write_field
DataWriteField ==
    /\ pc = "data"
    /\ Len(calls) < MaxCalls
    /\ \E f \in FieldValues :
          FacadeWritten(WriteField(writer, f.key, f.value),
                        Call("value", f.key, f.value, writer.write_conditions))

\* let sql = writer.sql(); the request is made
Request ==
    /\ sql' = WriterSql(writer)
    /\ pc' = RequestOf(op)
    /\ requests' = Append(requests, RequestOf(op))

\* descriptor.write returned: get and get_one switch the mode and run the query,
\* create and get_all render and make their request
DescriptorDone ==
    /\ pc = "descriptor"
    /\ IF op \in {"get", "get_one"}
       THEN /\ writer' = [writer EXCEPT !.write_conditions = TRUE]
            /\ pc' = "query"
            /\ sql' = sql
            /\ requests' = requests
       ELSE /\ Request
            /\ writer' = writer
    /\ UNCHANGED <<op, calls, fault, reply, streamed, entries, result, db, tasks>>

\* query.write returned
QueryDone ==
    /\ pc = "query"
    /\ Request
    /\ UNCHANGED <<op, writer, calls, fault, reply, streamed, entries, result, db, tasks>>

\* data.write returned
DataDone ==
    /\ pc = "data"
    /\ Request
    /\ UNCHANGED <<op, writer, calls, fault, reply, streamed, entries, result, db, tasks>>

\* execute(..).await? of create and insert
ExecuteOk ==
    /\ pc = "execute" /\ op \in {"create", "insert"}
    /\ reply' = "Done"
    /\ result' = Ok(<<>>)
    /\ pc' = "done"
    /\ UNCHANGED <<op, writer, calls, fault, sql, streamed, entries, db, requests, tasks>>

\* execute(..).await? of delete, on a table holding any rows: the server rejects a
\* text it cannot read and otherwise removes the rows the text selects
ExecuteDelete ==
    /\ pc = "execute" /\ op = "delete"
    /\ \E before \in SUBSET DbRows :
          LET parsed == SqlParseDelete(sql)
          IN  IF parsed.ok
              THEN /\ db' = [before |-> before, after |-> SqlDelete(before, parsed.conds)]
                   /\ reply' = "Done"
                   /\ result' = Ok(<<>>)
              ELSE /\ db' = [before |-> before, after |-> before]
                   /\ reply' = "Fault"
                   /\ result' = Err("Database")
    /\ pc' = "done"
    /\ UNCHANGED <<op, writer, calls, fault, sql, streamed, entries, requests, tasks>>

\* execute(..).await with the request made again after a driver fault
ExecuteFaultRetry ==
    /\ pc = "execute"
    /\ Len(requests) < 2
    /\ reply' = "Fault"
    /\ requests' = Append(requests, "execute")
    /\ UNCHANGED <<op, pc, writer, calls, fault, sql, streamed, entries, result, db, tasks>>

\* execute(..).await? with a driver fault
ExecuteFault ==
    /\ pc = "execute"
    /\ reply' = "Fault"
    /\ result' = Err("Database")
    /\ pc' = "done"
    /\ UNCHANGED <<op, writer, calls, fault, sql, streamed, entries, db, requests, tasks>>

\* get_all's loop body going on to the next row after a decoding fault
GetAllRowSkip(ents, d) ==
    IF d.ok THEN [done |-> FALSE, entries |-> Append(ents, d.val), result |-> Pending]
    ELSE [done |-> FALSE, entries |-> ents, result |-> Pending]

\* get_all's loop body ends the call with the decoding fault (T::read(..)?)
GetAllRow(ents, d) ==
    IF d.ok THEN [done |-> FALSE, entries |-> Append(ents, d.val), result |-> Pending]
    ELSE [done |-> TRUE, entries |-> ents, result |-> Err(d.err)]

\* get's loop body unwraps the decoding result (T::read(..).unwrap())
GetRow(ents, d) ==
    IF d.ok THEN [done |-> FALSE, entries |-> Append(ents, d.val), result |-> Pending]
    ELSE [done |-> TRUE, entries |-> ents, result |-> Panic]

\* rows.try_next().await? yields a row
StreamRow ==
    /\ pc = "fetch"
    /\ Len(streamed) < MaxRows
    /\ \E row \in Rows :
          LET d == Read(row, DescriptorFields, <<>>)
              r == IF op = "get" THEN GetRow(entries, d) ELSE GetAllRow(entries, d)
          IN  /\ streamed' = Append(streamed, row)
              /\ reply' = "Row"
              /\ entries' = r.entries
              /\ result' = r.result
              /\ pc' = IF r.done THEN "done" ELSE pc
    /\ UNCHANGED <<op, writer, calls, fault, sql, db, requests, tasks>>

\* rows.try_next().await? yields None: Ok(entries)
StreamEnd ==
    /\ pc = "fetch"
    /\ reply' = "End"
    /\ result' = Ok(entries)
    /\ pc' = "done"
    /\ UNCHANGED <<op, writer, calls, fault, sql, streamed, entries, db, requests, tasks>>

\* rows.try_next().await? yields a driver fault
StreamFault ==
    /\ pc = "fetch"
    /\ reply' = "Fault"
    /\ result' = Err("Database")
    /\ pc' = "done"
    /\ UNCHANGED <<op, writer, calls, fault, sql, streamed, entries, db, requests, tasks>>

\* get_one without the RowNotFound arm
FetchOneResultNoArm(rep, d) ==
    CASE rep = "Row" -> IF d.ok THEN Ok(<<d.val>>) ELSE Err(d.err)
      [] rep = "RowNotFound" -> Err("RowNotFound")
      [] rep = "Fault" -> Err("Database")

\* get_one after fetch_one(..).await: the match on the reply, then T::read(..)?
FetchOneResult(rep, d) ==
    CASE rep = "Row" -> IF d.ok THEN Ok(<<d.val>>) ELSE Err(d.err)
      [] rep = "RowNotFound" -> Ok(<<>>)
      [] rep = "Fault" -> Err("Database")

FetchOneRow ==
    /\ pc = "fetch_one"
    /\ \E row \in Rows :
          /\ streamed' = <<row>>
          /\ result' = FetchOneResult("Row", Read(row, DescriptorFields, <<>>))
    /\ reply' = "Row"
    /\ pc' = "done"
    /\ UNCHANGED <<op, writer, calls, fault, sql, entries, db, requests, tasks>>

FetchOneNotFound ==
    /\ pc = "fetch_one"
    /\ reply' = "RowNotFound"
    /\ result' = FetchOneResult("RowNotFound", Read(<<>>, <<>>, <<>>))
    /\ pc' = "done"
    /\ UNCHANGED <<op, writer, calls, fault, sql, streamed, entries, db, requests, tasks>>

FetchOneFault ==
    /\ pc = "fetch_one"
    /\ reply' = "Fault"
    /\ result' = FetchOneResult("Fault", Read(<<>>, <<>>, <<>>))
    /\ pc' = "done"
    /\ UNCHANGED <<op, writer, calls, fault, sql, streamed, entries, db, requests, tasks>>

Next ==
    \/ DescriptorWriteField
    \/ QueryWriteField
    \/ DataWriteField
    \/ DescriptorDone
    \/ QueryDone
    \/ DataDone
    \/ ExecuteOk
    \/ ExecuteDelete
    \/ ExecuteFault
    \/ StreamRow
    \/ StreamEnd
    \/ StreamFault
    \/ FetchOneRow
    \/ FetchOneNotFound
    \/ FetchOneFault

Spec == Init /\ [][Next]_vars

---------------------------------------------------------------------------
(* Expected texts, computed from the call log *)

\* items joined left to right with sep between neighbours
RECURSIVE TextList(_, _)
TextList(items, sep) ==
    IF Len(items) = 0 THEN ""
    ELSE IF Len(items) = 1 THEN items[1]
    ELSE TextList(SubSeq(items, 1, Len(items) - 1), sep) \o sep \o items[Len(items)]

\* the column type of each primitive kind
ColumnTypeText(kind) ==
    CASE kind = "bool" -> "BOOLEAN"
      [] kind = "i8" -> "TINYINT"
      [] kind = "i16" -> "SMALLINT"
      [] kind = "i32" -> "INT"
      [] kind = "i64" -> "BIGINT"
      [] kind = "u8" -> "TINYINT UNSIGNED"
      [] kind = "u16" -> "SMALLINT UNSIGNED"
      [] kind = "u32" -> "INT UNSIGNED"
      [] kind = "u64" -> "BIGINT UNSIGNED"
      [] kind = "f32" -> "FLOAT"
      [] kind = "f64" -> "DOUBLE"
      [] kind = "bytes" -> "BLOB"
      [] kind = "str" -> "TEXT"

\* the text a call hands to the statement: a type name or a literal
ArgText(c) == IF c.level = "type" THEN ColumnTypeText(c.arg) ELSE Str(Literal(c.arg))

AllCalls(level, cond) == \A i \in DOMAIN calls : calls[i].level = level /\ calls[i].cond = cond

CondCalls == SelectSeq(calls, LAMBDA c : c.cond)
PlainCalls == SelectSeq(calls, LAMBDA c : ~c.cond)

ExpectedWhere ==
    IF CondCalls = <<>> THEN ""
    ELSE " WHERE "
            \o TextList([i \in DOMAIN CondCalls |->
                            Str(CondCalls[i].key) \o " = " \o ArgText(CondCalls[i])], " AND ")

\* v with every single quote doubled
Doubled(v) == Replace(v, "'", <<"'", "'">>)

\* the literals the statement holds, in the order they were appended
WrittenLiterals ==
    IF writer.query.kind \in {"Create", "Insert"} THEN writer.query.values
    ELSE [i \in DOMAIN writer.query.conditions |-> writer.query.conditions[i].value]

---------------------------------------------------------------------------
(* Claims on the writer and the statement *)

\* C1: write_str appends ' + v with every ' doubled + ', and reading that literal back
\* as an SQL string yields v. Stated for Insert (value mode) and Delete (condition mode).
C1_WriteStrDoublesQuotes ==
    (/\ op = "unit" /\ fault = "none"
     /\ writer.query.kind \in {"Insert", "Delete"}
     /\ \A i \in DOMAIN calls : calls[i].level = "value")
        => \A i \in DOMAIN calls :
              calls[i].arg.kind = "str"
                  => /\ WrittenLiterals[i] = <<"'">> \o Doubled(calls[i].arg.val) \o <<"'">>
                     /\ SqlReadString(WrittenLiterals[i]) = [ok |-> TRUE, val |-> calls[i].arg.val]

\* C4: schema-writer write_field calls f1..fn on a Create statement render exactly
\* CREATE TABLE IF NOT EXISTS t (f1 type1,...,fn typeN), in call order, comma-joined.
C4_CreateRendering ==
    (/\ op = "unit" /\ pc = "rendered"
     /\ writer.query.kind = "Create"
     /\ AllCalls("type", FALSE))
        => Str(sql) = "CREATE TABLE IF NOT EXISTS " \o Str(writer.query.table) \o " ("
                \o TextList([i \in DOMAIN calls |->
                                Str(calls[i].key) \o " " \o ColumnTypeText(calls[i].arg)], ",")
                \o ")"

C4_Witness ==
    /\ op = "unit" /\ pc = "rendered"
    /\ writer.query.kind = "Create"
    /\ AllCalls("type", FALSE)
    /\ Len(calls) = 2
    /\ calls[1].key # calls[2].key
    /\ calls[1].arg # calls[2].arg

\* C5: value-mode write_field calls on an Insert statement render exactly
\* INSERT INTO t (c1,...,cn) VALUES (l1,...,ln); the i-th column and literal come from
\* the i-th call, so both lists have the length and the order of the calls.
C5_InsertRendering ==
    (/\ op = "unit" /\ pc = "rendered"
     /\ writer.query.kind = "Insert"
     /\ AllCalls("value", FALSE))
        => /\ Len(writer.query.columns) = Len(calls)
           /\ Len(writer.query.values) = Len(calls)
           /\ \A i \in DOMAIN calls :
                 /\ writer.query.columns[i] = calls[i].key
                 /\ writer.query.values[i] = Literal(calls[i].arg)
           /\ Str(sql) = "INSERT INTO " \o Str(writer.query.table) \o " ("
                \o TextList([i \in DOMAIN calls |-> Str(calls[i].key)], ",")
                \o ") VALUES ("
                \o TextList([i \in DOMAIN calls |-> ArgText(calls[i])], ",")
                \o ")"

C5_Witness ==
    /\ op = "unit" /\ pc = "rendered"
    /\ writer.query.kind = "Insert"
    /\ AllCalls("value", FALSE)
    /\ Len(calls) = 2
    /\ calls[1].key # calls[2].key
    /\ calls[1].arg.kind # calls[2].arg.kind

\* C6: no condition renders no WHERE clause on Select and Delete; n >= 1 conditions
\* render " WHERE c1 AND ... AND cn", each "<column> = <literal>", in push order.
C6_ConditionsRendering ==
    (op = "unit" /\ pc = "rendered")
        => /\ writer.query.kind = "Delete"
                => Str(sql) = "DELETE FROM " \o Str(writer.query.table) \o ExpectedWhere
           /\ writer.query.kind = "Select"
                => Str(sql) = "SELECT " \o Str(Join(writer.query.columns, <<",">>))
                                \o " FROM " \o Str(writer.query.table) \o ExpectedWhere

C6_Witness ==
    /\ op = "unit" /\ pc = "rendered"
    /\ writer.query.kind = "Delete"
    /\ Len(CondCalls) = 2
    /\ CondCalls[1].key # CondCalls[2].key

\* C7: on a Select statement a type-level write_field in non-condition mode appends
\* only the column name to the projection, a value write in condition mode appends a
\* condition and leaves the projection alone, and the rendering is
\* SELECT c1,...,cn FROM t followed by the rendered conditions.
C7_SelectFrame ==
    [][(op = "unit" /\ writer.query.kind = "Select")
        => /\ (Len(calls') = Len(calls) + 1
                 /\ calls'[Len(calls')].level = "type" /\ ~calls'[Len(calls')].cond)
                => /\ writer'.query.columns
                        = Append(writer.query.columns, calls'[Len(calls')].key)
                   /\ writer'.query.values = writer.query.values
                   /\ writer'.query.conditions = writer.query.conditions
           /\ (Len(calls') = Len(calls) + 1
                 /\ calls'[Len(calls')].level = "value" /\ calls'[Len(calls')].cond)
                => /\ writer'.query.columns = writer.query.columns
                   /\ writer'.query.conditions
                        = Append(writer.query.conditions,
                                 [column |-> calls'[Len(calls')].key,
                                  value |-> Literal(calls'[Len(calls')].arg),
                                  comparator |-> "Eq"])
           /\ (pc = "write" /\ pc' = "rendered"
                 /\ \A i \in DOMAIN calls :
                       calls[i].cond = (calls[i].level = "value"))
                => Str(sql') = "SELECT "
                                \o TextList([i \in DOMAIN PlainCalls |->
                                                Str(PlainCalls[i].key)], ",")
                                \o " FROM " \o Str(writer.query.table) \o ExpectedWhere
      ]_vars

C7_Witness ==
    /\ op = "unit" /\ pc = "rendered"
    /\ writer.query.kind = "Select"
    /\ Len(calls) = 2
    /\ calls[1].level = "type" /\ ~calls[1].cond
    /\ calls[2].level = "value" /\ calls[2].cond
    /\ Len(writer.query.columns) = 1
    /\ Len(writer.query.conditions) = 1

\* C8: a condition pushed onto Create or Insert, and a column/value pair pushed onto
\* Delete, hits the unreachable-state fault and leaves the statement as it was.
C8_WrongKindFailsFast ==
    [][(/\ op = "unit"
        /\ Len(calls') = Len(calls) + 1
        /\ \/ writer.query.kind \in {"Create", "Insert"} /\ calls'[Len(calls')].cond
           \/ writer.query.kind = "Delete" /\ ~calls'[Len(calls')].cond)
        => /\ fault' = "unreachable"
           /\ writer'.query = writer.query
      ]_vars

C8_Witness ==
    /\ op = "unit"
    /\ fault = "unreachable"
    /\ writer.query.kind = "Insert"
    /\ Len(calls) = 2
    /\ Len(writer.query.columns) = 1

---------------------------------------------------------------------------
(* Claims on the facade *)

\* a row every field of T can be read from
Decodable(row) ==
    \A i \in DOMAIN DescriptorFields :
        /\ DescriptorFields[i].key \in DOMAIN row
        /\ row[DescriptorFields[i].key].kind = DescriptorFields[i].kind

\* the record of a decodable row: its cells in field order
ExpectedRecord(row) == [i \in DOMAIN DescriptorFields |-> row[DescriptorFields[i].key]]

DecodingFaults == {"ColumnNotFound", "ColumnDecode"}

\* C2: in get, a row that fails to decode aborts the call and the decoding fault is
\* returned as the operation's error result, with no records.
C2_GetReturnsDecodingFault ==
    (/\ op = "get" /\ pc = "done"
     /\ \E i \in DOMAIN streamed : ~Decodable(streamed[i]))
        => /\ result.tag = "Err"
           /\ result.err \in DecodingFaults
           /\ result.val = <<>>

\* C3: in get_all a decoding fault on a row, or a driver fault in the stream, is the
\* call's result and no record is returned; without a fault the result holds one
\* record per streamed row, in stream order.
C3_GetAllAllOrNothing ==
    (op = "get_all" /\ pc = "done")
        => /\ (\E i \in DOMAIN streamed : ~Decodable(streamed[i]))
                => /\ result.tag = "Err"
                   /\ result.err \in DecodingFaults
                   /\ result.val = <<>>
           /\ reply = "Fault" => result = Err("Database")
           /\ reply = "End"
                => /\ result.tag = "Ok"
                   /\ Len(result.val) = Len(streamed)
                   /\ \A i \in DOMAIN streamed : result.val[i] = ExpectedRecord(streamed[i])

C3_Witness ==
    /\ op = "get_all" /\ pc = "done"
    /\ Len(streamed) = 2
    /\ Len(entries) = 1
    /\ ~Decodable(streamed[2])
    /\ result.tag = "Err"

\* C9: get_one returns an absent result on the driver's "no row found" fault, returns
\* any other driver fault, and returns a present record only for a row that decoded.
C9_GetOne ==
    (op = "get_one" /\ pc = "done")
        => /\ reply = "RowNotFound" => result = Ok(<<>>)
           /\ reply = "Fault" => result = Err("Database")
           /\ (result.tag = "Ok" /\ result.val # <<>>)
                => /\ reply = "Row"
                   /\ Decodable(streamed[1])
                   /\ result.val = <<ExpectedRecord(streamed[1])>>
           /\ (reply = "Row" /\ ~Decodable(streamed[1]))
                => result.tag = "Err" /\ result.err \in DecodingFaults

C9_Witness ==
    /\ op = "get_one" /\ pc = "done"
    /\ reply = "RowNotFound"
    /\ result = Ok(<<>>)
    /\ Len(writer.query.columns) = 1
    /\ Len(writer.query.conditions) = 1

\* C10: a delete whose query writes no condition renders DELETE FROM <table> and,
\* executed, removes every row; a delete with conditions removes only rows that
\* satisfy all of them.
C10_DeleteRemoves ==
    (op = "delete" /\ pc = "done" /\ reply = "Done")
        => /\ calls = <<>>
                => /\ Str(sql) = "DELETE FROM " \o Str(writer.query.table)
                   /\ db.after = {}
           /\ \A row \in db.before \ db.after :
                 \A i \in DOMAIN calls : row[calls[i].key] = calls[i].arg

---------------------------------------------------------------------------
(* Claims on the requests made to the driver *)

\* the one request an operation is to make
ExpectedRequest ==
    CASE op \in {"create", "insert", "delete"} -> "execute"
      [] op \in {"get", "get_all"} -> "fetch"
      [] op = "get_one" -> "fetch_one"

---------------------------------------------------------------------------
(* Several operations on one MySqlStore at once: each async fn holds its table, *)
(* writer and sql in its own locals, and the store holds only the pool          *)
(* (src/mysql.rs)                                                               *)

TaskIds == {1, 2}

\* the locals of an operation after it constructed its writer
TaskNew(o, table) ==
    [op |-> o, pc |-> FirstPc(o), writer |-> WriterOf(o, table),
     calls |-> <<>>, sql |-> <<>>]

InitConc ==
    /\ op = "concurrent"
    /\ pc = "run"
    /\ writer = <<>>
    /\ calls = <<>>
    /\ fault = "none"
    /\ sql = <<>>
    /\ reply = "none"
    /\ streamed = <<>>
    /\ entries = <<>>
    /\ result = Pending
    /\ db = [before |-> {}, after |-> {}]
    /\ requests = <<>>
    /\ tasks \in [TaskIds -> {TaskNew(o, table) : o \in Ops, table \in Tables}]

\* one writer kept in the store and used by every operation
TaskWriterShared(p) == tasks[1].writer

\* the writer the callbacks of operation p write to: the local of p
TaskWriter(p) == tasks[p].writer

\* a write_field of operation p; unreachable!() unwinds p
TaskWritten(p, r, call) ==
    /\ tasks' = [tasks EXCEPT ![p].writer = r.writer,
                              ![p].calls = Append(@, call),
                              ![p].pc = IF r.panic THEN "panicked" ELSE @]
    /\ UNCHANGED <<op, pc, writer, calls, fault, sql, reply, streamed, entries, result,
                   db, requests>>

\* descriptor.write(&mut writer) of operation p: one TypeWriter::write_field
TaskDescriptorWriteField ==
    \E p \in TaskIds :
        /\ tasks[p].pc = "descriptor"
        /\ Len(tasks[p].calls) < MaxCalls
        /\ \E f \in Fields :
              TaskWritten(p, TypeWriteField(TaskWriter(p), f.key, f.kind),
                          Call("type", f.key, f.kind, TaskWriter(p).write_conditions))

\* query.write(&mut writer) or data.write(&mut writer) of operation p: one
\* Writer::write_field
TaskValueWriteField ==
    \E p \in TaskIds :
        /\ tasks[p].pc \in {"query", "data"}
        /\ Len(tasks[p].calls) < MaxCalls
        /\ \E f \in FieldValues :
              TaskWritten(p, WriteField(TaskWriter(p), f.key, f.value),
                          Call("value", f.key, f.value, TaskWriter(p).write_conditions))

\* descriptor.write of operation p returned
TaskDescriptorDone ==
    /\ \E p \in TaskIds :
          /\ tasks[p].pc = "descriptor"
          /\ tasks' =
                IF tasks[p].op \in {"get", "get_one"}
                THEN [tasks EXCEPT ![p].writer = [TaskWriter(p) EXCEPT !.write_conditions = TRUE],
                                   ![p].pc = "query"]
                ELSE [tasks EXCEPT ![p].sql = WriterSql(TaskWriter(p)),
                                   ![p].pc = RequestOf(tasks[p].op)]
    /\ UNCHANGED <<op, pc, writer, calls, fault, sql, reply, streamed, entries, result,
                   db, requests>>

\* query.write or data.write of operation p returned: sql is rendered and handed
\* to the driver
TaskValueDone ==
    /\ \E p \in TaskIds :
          /\ tasks[p].pc \in {"query", "data"}
          /\ tasks' = [tasks EXCEPT ![p].sql = WriterSql(TaskWriter(p)),
                                    ![p].pc = RequestOf(tasks[p].op)]
    /\ UNCHANGED <<op, pc, writer, calls, fault, sql, reply, streamed, entries, result,
                   db, requests>>

NextConc ==
    \/ TaskDescriptorWriteField
    \/ TaskValueWriteField
    \/ TaskDescriptorDone
    \/ TaskValueDone

SpecConc == InitConc /\ [][NextConc]_vars

\* the writer an operation has when it runs alone and makes the write_field calls cs:
\* the type-level calls of its descriptor, the mode switch of get and get_one, then
\* the value-level calls of its query or record
RECURSIVE AloneWriter(_, _, _)
AloneWriter(o, w, cs) ==
    IF cs = <<>> THEN w
    ELSE LET c == Head(cs)
         IN  IF c.level = "type"
             THEN AloneWriter(o, TypeWriteField(w, c.key, c.arg).writer, Tail(cs))
             ELSE AloneWriter(o,
                    WriteField([w EXCEPT !.write_conditions =
                                            @ \/ o \in {"get", "get_one"}],
                               c.key, c.arg).writer,
                    Tail(cs))

Requested(p) == tasks[p].pc \in {"execute", "fetch", "fetch_one"}

\* C12: under every interleaving of concurrent operations the text each operation
\* hands to the driver is the text it produces alone, and no column, literal,
\* condition or current key of another operation is in its statement.
C12_NoLeak ==
    op = "concurrent"
        => \A p \in TaskIds :
              LET alone == AloneWriter(tasks[p].op,
                                       WriterOf(tasks[p].op, tasks[p].writer.query.table),
                                       tasks[p].calls)
              IN  /\ tasks[p].pc # "panicked"
                  /\ tasks[p].writer.query = alone.query
                  /\ tasks[p].writer.key = alone.key
                  /\ Requested(p) => tasks[p].sql = WriterSql(alone)

C12_Witness ==
    /\ op = "concurrent"
    /\ tasks[1].op = "get" /\ tasks[2].op = "insert"
    /\ Requested(1) /\ Requested(2)
    /\ Len(tasks[1].calls) = 2 /\ Len(tasks[2].calls) = 2
    /\ tasks[1].calls[2].level = "value"
    /\ tasks[1].calls[2].key # tasks[2].calls[2].key

---------------------------------------------------------------------------
(* The schema writers over every primitive kind: a Create statement built by   *)
(* either TypeWriter implementation (src/mysql.rs, src/types.rs)               *)

InitTypes ==
    /\ op = "schema"
    /\ pc = "write"
    /\ \E table \in Tables :
          writer \in {MySqlWriterNew(table, "Create"), MySqlTypeWriterNew(table, "Create")}
    /\ calls = <<>>
    /\ fault = "none"
    /\ Idle

\* <_ as TypeWriter>::write_field::<T>(&mut writer, key), T any primitive type
SchemaWriteField ==
    /\ op = "schema" /\ pc = "write" /\ fault = "none"
    /\ Len(calls) < MaxCalls
    /\ \E key \in Keys, kind \in Kinds :
          Written(TypeWriteField(writer, key, kind),
                  Call("type", key, kind, writer.write_conditions))
    /\ UNCHANGED <<op, pc, sql, reply, streamed, entries, result, db, requests, tasks>>

\* writer.sql()
SchemaSql ==
    /\ op = "schema" /\ pc = "write" /\ fault = "none"
    /\ pc' = "rendered"
    /\ sql' = WriterSql(writer)
    /\ UNCHANGED <<op, writer, calls, fault, reply, streamed, entries, result, db,
                   requests, tasks>>

NextTypes ==
    \/ SchemaWriteField
    \/ SchemaSql

SpecTypes == InitTypes /\ [][NextTypes]_vars

\* C13: for each of the thirteen primitive kinds both schema writers emit the same
\* column-type text, the specified one: the text stored for the i-th field of a Create
\* statement is the specified text of the i-th call's kind, whichever writer built it.
C13_ColumnTypeTexts ==
    op = "schema"
        => /\ fault = "none"
           /\ Len(writer.query.values) = Len(calls)
           /\ \A i \in DOMAIN calls :
                 /\ Str(writer.query.values[i]) = ColumnTypeText(calls[i].arg)
                 /\ Str(MySqlWriterTypeName(calls[i].arg)) = ColumnTypeText(calls[i].arg)
                 /\ Str(MySqlTypeWriterTypeName(calls[i].arg)) = ColumnTypeText(calls[i].arg)

C13_Witness ==
    /\ op = "schema" /\ pc = "rendered"
    /\ writer.impl = "MySqlTypeWriter"
    /\ Len(calls) = 2
    /\ calls[1].arg = "u8" /\ calls[2].arg = "bytes"
    /\ Str(writer.query.values[1]) = "TINYINT UNSIGNED"
    /\ Str(writer.query.values[2]) = "BLOB"

---------------------------------------------------------------------------
(* Claims on the writers' mode and key *)

\* C14: the mode flag alone decides the statement operation of a primitive write. With
\* the flag set the write is a push_condition of the current key, the text and the
\* equality comparator and no push: columns and values stay, and the condition is
\* appended (or, on Create and Insert, the fault is hit). With the flag clear it is a
\* push of the current key and the text and no push_condition: conditions stay, and
\* the column (with the text on Create and Insert) is appended (or, on Delete, the
\* fault is hit). This holds for both writers and for value-level and type-level calls.
C14_ModeDecides ==
    [][(op = "unit" /\ Len(calls') = Len(calls) + 1)
        => LET q == writer.query
               c == calls'[Len(calls')]
           IN  /\ writer'.write_conditions = writer.write_conditions
               /\ writer.write_conditions
                    => /\ writer'.query.columns = q.columns
                       /\ writer'.query.values = q.values
                       /\ q.kind \in {"Delete", "Select"}
                            => /\ fault' = "none"
                               /\ Len(writer'.query.conditions) = Len(q.conditions) + 1
                               /\ SubSeq(writer'.query.conditions, 1, Len(q.conditions))
                                    = q.conditions
                               /\ LET n == writer'.query.conditions[Len(q.conditions) + 1]
                                  IN  /\ n.column = c.key
                                      /\ Str(n.value) = ArgText(c)
                                      /\ n.comparator = "Eq"
                       /\ q.kind \in {"Create", "Insert"}
                            => fault' = "unreachable" /\ writer'.query = q
               /\ ~writer.write_conditions
                    => /\ writer'.query.conditions = q.conditions
                       /\ q.kind \in {"Create", "Insert", "Select"}
                            => /\ fault' = "none"
                               /\ writer'.query.columns = Append(q.columns, c.key)
                       /\ q.kind \in {"Create", "Insert"}
                            => /\ Len(writer'.query.values) = Len(q.values) + 1
                               /\ SubSeq(writer'.query.values, 1, Len(q.values)) = q.values
                               /\ Str(writer'.query.values[Len(q.values) + 1]) = ArgText(c)
                       /\ q.kind = "Select" => writer'.query.values = q.values
                       /\ q.kind = "Delete"
                            => fault' = "unreachable" /\ writer'.query = q
      ]_vars

C14_Witness ==
    /\ op = "unit" /\ fault = "none"
    /\ writer.impl = "MySqlTypeWriter"
    /\ writer.write_conditions
    /\ writer.query.kind = "Select"
    /\ Len(calls) = 2
    /\ ~calls[1].cond /\ calls[2].cond
    /\ Len(writer.query.columns) = 1
    /\ Len(writer.query.conditions) = 1

\* the calls whose primitive write appended an entry: all of them, or all but the
\* last when the last hit the fault
AppendedCalls ==
    IF fault = "none" THEN calls ELSE SubSeq(calls, 1, Len(calls) - 1)

KeysOf(cs) == [i \in DOMAIN cs |-> cs[i].key]

\* C15: each write_field call sets the current key and then makes exactly one primitive
\* write, so the entries of the statement carry, in order, the keys of the calls that
\* appended them: the columns those of the value-mode calls, the conditions those of
\* the condition-mode calls, one entry per call. The current key is the key of the last
\* call, and no entry carries the initial empty key.
C15_EntryKeys ==
    op = "unit"
        => LET q == writer.query
               plain == SelectSeq(AppendedCalls, LAMBDA c : ~c.cond)
               cond == SelectSeq(AppendedCalls, LAMBDA c : c.cond)
           IN  /\ q.columns = KeysOf(plain)
               /\ [i \in DOMAIN q.conditions |-> q.conditions[i].column] = KeysOf(cond)
               /\ Len(q.columns) + Len(q.conditions) = Len(AppendedCalls)
               /\ q.kind \in {"Create", "Insert"} => Len(q.values) = Len(q.columns)
               /\ calls # <<>> => writer.key = calls[Len(calls)].key
               /\ \A i \in DOMAIN q.columns : q.columns[i] # <<>>
               /\ \A i \in DOMAIN q.conditions : q.conditions[i].column # <<>>

C15_Witness ==
    /\ op = "unit" /\ fault = "none"
    /\ writer.impl = "MySqlWriter"
    /\ writer.query.kind = "Select"
    /\ Len(calls) = 2
    /\ calls[1].level = "type" /\ calls[1].key = ID /\ ~calls[1].cond
    /\ calls[2].level = "value" /\ calls[2].key = NAME /\ calls[2].cond
    /\ writer.query.columns = <<ID>>
    /\ writer.query.conditions[1].column = NAME
    /\ writer.key = NAME

---------------------------------------------------------------------------
(* Claim on the pairing of statement kind and writer mode in the facade *)

\* C16: in every facade operation the statement kind and the writer mode are paired so
\* that the statement-construction fault is never hit by write_field calls: create
\* pushes pairs onto Create, insert pushes pairs onto Insert, delete pushes only
\* conditions onto Delete, get_all pushes only columns onto Select, and get and get_one
\* push columns onto Select before the mode switch and only conditions after it.
C16_KindModePaired ==
    op \in Ops
        => LET q == writer.query
           IN  /\ fault = "none"
               /\ op = "create"
                    => /\ q.kind = "Create" /\ AllCalls("type", FALSE)
                       /\ Len(q.columns) = Len(calls) /\ Len(q.values) = Len(calls)
                       /\ q.conditions = <<>>
               /\ op = "insert"
                    => /\ q.kind = "Insert" /\ AllCalls("value", FALSE)
                       /\ Len(q.columns) = Len(calls) /\ Len(q.values) = Len(calls)
                       /\ q.conditions = <<>>
               /\ op = "delete"
                    => /\ q.kind = "Delete" /\ AllCalls("value", TRUE)
                       /\ q.columns = <<>> /\ q.values = <<>>
                       /\ Len(q.conditions) = Len(calls)
               /\ op = "get_all"
                    => /\ q.kind = "Select" /\ AllCalls("type", FALSE)
                       /\ Len(q.columns) = Len(calls)
                       /\ q.conditions = <<>>
               /\ op \in {"get", "get_one"}
                    => /\ q.kind = "Select"
                       /\ \A i \in DOMAIN calls : calls[i].cond = (calls[i].level = "value")
                       /\ \A i, j \in DOMAIN calls : (i < j /\ calls[i].cond) => calls[j].cond
                       /\ writer.write_conditions = (pc # "descriptor")
                       /\ pc = "descriptor" => CondCalls = <<>>
                       /\ Len(q.columns) = Len(PlainCalls)
                       /\ Len(q.conditions) = Len(CondCalls)

C16_Witness ==
    /\ op = "get_one" /\ pc = "fetch_one"
    /\ fault = "none"
    /\ writer.write_conditions
    /\ Len(calls) = 2
    /\ calls[1].level = "type" /\ ~calls[1].cond
    /\ calls[2].level = "value" /\ calls[2].cond
    /\ Len(writer.query.columns) = 1
    /\ Len(writer.query.conditions) = 1

====
